---------------------------- MODULE Spec2Model ----------------------------
(***************************************************************************)
(* A model of the qwak-ai/go-sdk token lifecycle and request executor:     *)
(*   - http.DoRequestWithRetry and the RetryPolicy helpers,                *)
(*   - authentication.Authenticator (GetToken, token, lazyRenewToken,      *)
(*     renewToken, doGetTokenRequest, getExpiredIn),                       *)
(*   - qwak.RealTimeClient.PredictWithCtx.                                 *)
(* Threads are the goroutines of the program: callers of the public API    *)
(* and the goroutines spawned by lazyRenewToken.  Time is counted in       *)
(* minutes; a float64 back-off factor is carried in tenths.                *)
(***************************************************************************)
EXTENDS Integers, Sequences, FiniteSets, TLC

VARIABLES
    now,          \* the latest reading of time.Now(), minutes
    tokenWrapper, \* Authenticator.tokenWrapper, the cached credential
    lock,         \* holder of Authenticator.lock, or NoThread
    inflight,     \* singleflight.Group: key -> the thread executing fn, or NoThread
    spawned,      \* goroutines started by lazyRenewToken that have not run yet
    calls,        \* public operations begun so far
    pc,           \* position of each thread
    op,           \* the public operation a thread is executing
    ctxDone,      \* whether the thread's context is cancelled / past its deadline
    rq,           \* locals of DoRequestWithRetry, per thread
    gt,           \* locals of GetToken / renewToken, per thread
    RetryPolicy,  \* RealTimeClient.RetryPolicy
    netlog,       \* history: per thread, the outcomes of the network calls of its current DoRequestWithRetry
    hist          \* history: per thread, counters of its current operation

vars == <<now, tokenWrapper, lock, inflight, spawned, calls, pc, op, ctxDone, rq, gt, RetryPolicy, netlog, hist>>

---------------------------------------------------------------------------
(* Bounds of the model *)

\* public operations begun in one run, over all callers
MaxCalls == 3

Callers == {"c1", "c2"}

Goroutines == {"g1", "g2"}

Threads == Callers \cup Goroutines

NoThread == "none"

\* the values time.Now() returns (minutes)
TimePoints == {0, 15, 150}

\* the credentials the authentication endpoint hands out: accessToken, expiredAt (epoch seconds)
Credentials == {<<"jwt-a", 9000>>, <<"jwt-b", 10800>>}

\* status codes the endpoints answer with
Statuses == {200, 401, 499, 500, 503}

---------------------------------------------------------------------------
(* Program constants *)

\* authenticator.go: TokenExpirationBuffer = 30 * time.Minute
TokenExpirationBuffer == 30

\* authenticator.go: stalenessTokenPeriod = 2 * time.Hour
stalenessTokenPeriod == 120

\* the zero time.Time of an unset tokenWrapper (year 1), far before every instant
ZeroTime == -1000000

\* tokenWrapper{}
ZeroToken == [accessToken |-> "", expiredAt |-> ZeroTime]

\* a nil []byte
NilBody == [kind |-> "nil", accessToken |-> "", expiredAt |-> ZeroTime]

\* a nil error
NoErr == [kind |-> "nil", cause |-> "nil", errs |-> <<>>]

\* an error value: its kind (the message's fixed text), what it wraps, the attempt failures it cites
Err(kind, cause, errs) == [kind |-> kind, cause |-> cause, errs |-> errs]

\* RetryPolicy{} literals; ExponentialBackoffFactor in tenths
ZeroPolicy == [MaxAttempts |-> 0, IntervalMs |-> 0, ExponentialBackoffFactor |-> 0]

\* the policy the client was configured with for its predictions
ClientRetryPolicy == RetryPolicy

\* the policy doGetTokenRequest passes to DoRequestWithRetry
AuthRetryPolicy == [MaxAttempts |-> 5, IntervalMs |-> 200, ExponentialBackoffFactor |-> 15]

BasicExponentialBackoffRetryPolicy == [MaxAttempts |-> 5, IntervalMs |-> 200, ExponentialBackoffFactor |-> 20]

\* the policies DoRequestWithRetry is exercised with
Policies ==
    {ZeroPolicy, AuthRetryPolicy, BasicExponentialBackoffRetryPolicy}
    \cup [MaxAttempts : {-1, 1, 2, 3, 6}, IntervalMs : {200}, ExponentialBackoffFactor : {5, 35}]

---------------------------------------------------------------------------
(* RetryPolicy *)

RECURSIVE Pow(_, _)
Pow(b, e) == IF e = 0 THEN 1 ELSE b * Pow(b, e - 1)

\* getMaxAttempts without its upper limit
getMaxAttemptsUncapped(r) ==
    IF r.MaxAttempts < 1 THEN 1 ELSE r.MaxAttempts

\* getMaxAttempts without its lower limit
getMaxAttemptsNoFloor(r) ==
    IF r.MaxAttempts > 5 THEN 5 ELSE r.MaxAttempts

getMaxAttempts(r) ==
    IF r.MaxAttempts > 5 THEN 5
    ELSE IF r.MaxAttempts < 1 THEN 1
    ELSE r.MaxAttempts

\* int(math.Floor(math.Pow(factor, attempt))) squared, factor in tenths
\* getBackoffForAttempt without the two limits on its factor
getBackoffForAttemptUnclamped(r, attempt) ==
    LET backoffMultiplier == Pow(r.ExponentialBackoffFactor, attempt) \div Pow(10, attempt)
    IN  backoffMultiplier * backoffMultiplier

getBackoffForAttempt(r, attempt) ==
    LET f0 == r.ExponentialBackoffFactor
        f1 == IF f0 < 10 THEN 10 ELSE f0
        factor == IF f1 > 30 THEN 30 ELSE f1
        backoffMultiplier == Pow(factor, attempt) \div Pow(10, attempt)
    IN  backoffMultiplier * backoffMultiplier

---------------------------------------------------------------------------
(* The endpoints: what one client.Do may produce *)

TransportFailure == [transport |-> TRUE, status |-> 0, bodyOk |-> FALSE, body |-> NilBody]

Response(s, ok, b) == [transport |-> FALSE, status |-> s, bodyOk |-> ok, body |-> b]

TextBody == [kind |-> "text", accessToken |-> "", expiredAt |-> ZeroTime]

MalformedBody == [kind |-> "malformed", accessToken |-> "", expiredAt |-> ZeroTime]

\* {"accessToken": ..., "expiredAt": ...}
AuthBodies == {[kind |-> "json", accessToken |-> c[1], expiredAt |-> c[2]] : c \in Credentials}

\* a JSON list of predictions
PredictionsBody == [kind |-> "json", accessToken |-> "", expiredAt |-> ZeroTime]

Bodies(target, s) ==
    IF target = "auth" /\ s = 200 THEN AuthBodies \cup {MalformedBody}
    ELSE IF target = "inference" /\ s = 200 THEN {PredictionsBody, MalformedBody}
    ELSE IF target = "inference" /\ s = 201 THEN {PredictionsBody}
    ELSE IF s = 200 THEN {TextBody, MalformedBody}
    ELSE {TextBody}

\* every outcome of one client.Do: no response, a response whose body cannot be read, a response
\* the status codes an endpoint answers with: the inference endpoint also with a 2xx that is
\* not 200
StatusesOf(target) == IF target = "inference" THEN Statuses \cup {201} ELSE Statuses

AllOutcomes(target) ==
    {TransportFailure}
    \cup {Response(s, FALSE, NilBody) : s \in {200, 503}}
    \cup UNION {{Response(s, TRUE, b) : b \in Bodies(target, s)} : s \in StatusesOf(target)}

\* the endpoints as the Authenticator and the client are exercised with: of the outcomes that
\* make DoRequestWithRetry retry, the 503
NetOutcomes(o, target) ==
    IF o = "DoRequestWithRetry" THEN AllOutcomes(target)
    ELSE {x \in AllOutcomes(target) : x.bodyOk /\ x.status # 500}

---------------------------------------------------------------------------
(* http.executeRequest and http.DoRequestWithRetry *)

\* an executeRequest that returns the status of a response whose body it could not read
\* without an error
executeRequestBodyUnchecked(o) ==
    IF o.transport THEN [body |-> NilBody, httpCode |-> 0, err |-> "transport"]
    ELSE [body |-> IF o.bodyOk THEN o.body ELSE NilBody, httpCode |-> o.status, err |-> "nil"]

executeRequest(o) ==
    IF o.transport THEN [body |-> NilBody, httpCode |-> 0, err |-> "transport"]
    ELSE IF ~o.bodyOk THEN [body |-> NilBody, httpCode |-> o.status, err |-> "body"]
    ELSE [body |-> o.body, httpCode |-> o.status, err |-> "nil"]

\* locals at entry that count one attempt as already made
NewFrameSpent(policy, target) ==
    [policy |-> policy, target |-> target, authorization |-> <<>>, retryAttempt |-> 1,
     lastErr |-> "nil", lastHttpCode |-> 0, errs |-> <<>>, body |-> NilBody, duration |-> 0]

\* the locals at entry: lastHttpCode 0, errs nil, lastErr nil, body nil, and duration, in
\* milliseconds, of the latest wait (none yet); and of the request it was called with, the
\* authorization header (none until the caller sets one)
NewFrame(policy, target) ==
    [policy |-> policy, target |-> target, authorization |-> <<>>, retryAttempt |-> 0,
     lastErr |-> "nil", lastHttpCode |-> 0, errs |-> <<>>, body |-> NilBody, duration |-> 0]

IdleFrame == NewFrame(ZeroPolicy, "none")

\* the for statement's condition without its test of lastErr
LoopConditionAttemptsOnly(f) ==
    f.retryAttempt < getMaxAttempts(f.policy)

\* the for statement's condition
LoopCondition(f) ==
    /\ f.retryAttempt < getMaxAttempts(f.policy)
    /\ (f.retryAttempt = 0 \/ f.lastErr # "nil")

\* the status check with 400 as its threshold
StatusCheckFrom400(r) ==
    IF r.err = "nil" /\ r.httpCode >= 400 THEN "status" ELSE r.err

\* lastErr after the status check that follows executeRequest
StatusCheck(r) ==
    IF r.err = "nil" /\ r.httpCode >= 500 THEN "status" ELSE r.err

\* the three values DoRequestWithRetry returns
DoRequestResult(f) ==
    [body |-> f.body, statusCode |-> f.lastHttpCode,
     err |-> IF f.lastErr # "nil"
             THEN Err("failed to perform request", "all attempts failed", f.errs)
             ELSE NoErr]

\* a context check that never finds the context done
ContextErrNever(t) == FALSE

\* a context check made before the first attempt only
ContextErrFirstOnly(t) == ctxDone[t] /\ rq[t].retryAttempt = 0

\* request.Context().Err() != nil
ContextErr(t) == ctxDone[t]

\* top of one loop iteration: the condition, then the context check, then client.Do is entered
RqLoop(t) ==
    /\ pc[t] = "rq_loop"
    /\ IF LoopCondition(rq[t])
       THEN IF ContextErr(t)
            THEN /\ rq' = [rq EXCEPT ![t].lastErr = "ctx",
                                      ![t].errs = Append(@, [attempt |-> rq[t].retryAttempt,
                                                             discarded |-> TRUE,
                                                             err |-> "ctx", code |-> 0])]
                 /\ pc' = [pc EXCEPT ![t] = "rq_ret"]
            ELSE /\ pc' = [pc EXCEPT ![t] = "rq_call"]
                 /\ rq' = rq
       ELSE /\ pc' = [pc EXCEPT ![t] = "rq_ret"]
            /\ rq' = rq
    /\ UNCHANGED <<now, tokenWrapper, lock, inflight, spawned, calls, op, ctxDone, gt, RetryPolicy, netlog, hist>>

\* client.Do returns: executeRequest, the status check, the bookkeeping of a failed attempt
RqCall(t) ==
    /\ pc[t] = "rq_call"
    /\ \E o \in NetOutcomes(op[t], rq[t].target) :
        LET r == executeRequest(o)
            e == StatusCheck(r)
            f == [rq[t] EXCEPT !.body = r.body, !.lastHttpCode = r.httpCode, !.lastErr = e]
        IN  /\ netlog' = [netlog EXCEPT ![t] = Append(@, [transport |-> o.transport,
                                                          status |-> o.status,
                                                          bodyOk |-> o.bodyOk,
                                                          body |-> o.body,
                                                          attempt |-> rq[t].retryAttempt])]
            /\ hist' = [hist EXCEPT ![t].net = TRUE]
            /\ IF e # "nil"
               THEN /\ rq' = [rq EXCEPT ![t] = [f EXCEPT !.errs =
                                Append(@, [attempt |-> f.retryAttempt, discarded |-> FALSE,
                                           err |-> e, code |-> r.httpCode]),
                                !.duration = getBackoffForAttempt(f.policy, f.retryAttempt)]]
                    /\ pc' = [pc EXCEPT ![t] = "rq_wait"]
               ELSE /\ rq' = [rq EXCEPT ![t] = [f EXCEPT !.retryAttempt = @ + 1]]
                    /\ pc' = [pc EXCEPT ![t] = "rq_loop"]
    /\ UNCHANGED <<now, tokenWrapper, lock, inflight, spawned, calls, op, ctxDone, gt, RetryPolicy>>

\* a timer that never fires
TimerNeverFires(t) == FALSE

\* the select: case <-time.After(duration)
RqWaitTimer(t) ==
    /\ pc[t] = "rq_wait"
    /\ rq' = [rq EXCEPT ![t].retryAttempt = @ + 1]
    /\ pc' = [pc EXCEPT ![t] = "rq_loop"]
    /\ hist' = [hist EXCEPT ![t].waits = @ + 1]
    /\ UNCHANGED <<now, tokenWrapper, lock, inflight, spawned, calls, op, ctxDone, gt, RetryPolicy, netlog>>

\* the select: case <-request.Context().Done()
RqWaitCtx(t) ==
    /\ pc[t] = "rq_wait"
    /\ ctxDone[t]
    /\ rq' = [rq EXCEPT ![t].retryAttempt = @ + 1]
    /\ pc' = [pc EXCEPT ![t] = "rq_loop"]
    /\ hist' = [hist EXCEPT ![t].waits = @ + 1]
    /\ UNCHANGED <<now, tokenWrapper, lock, inflight, spawned, calls, op, ctxDone, gt, RetryPolicy, netlog>>

\* a caller calls DoRequestWithRetry(client, request, policy) with a request of its own context
DoRequestWithRetry(t) ==
    /\ t \in Callers
    /\ pc[t] = "idle"
    /\ calls < MaxCalls
    /\ calls' = calls + 1
    /\ op' = [op EXCEPT ![t] = "DoRequestWithRetry"]
    /\ \E policy \in Policies : rq' = [rq EXCEPT ![t] = NewFrame(policy, "plain")]
    /\ pc' = [pc EXCEPT ![t] = "rq_loop"]
    /\ UNCHANGED <<now, tokenWrapper, lock, inflight, spawned, ctxDone, gt, RetryPolicy, netlog, hist>>

---------------------------------------------------------------------------
(* authentication.Authenticator *)

NoRes == [token |-> ZeroToken, err |-> NoErr]

\* the locals of GetToken and renewToken before the call starts:
\*   klass  the branch GetToken took
\*   past   history: the snapshot GetToken read was unset or had expiredAt - now <= 0
\*   fn     what the fn of renewToken returns, once it is known
\*   out    what GetToken returns (token, err), once it is known
\*   res    what PredictWithCtx returns (whether a response, err), once it is known
IdleGt ==
    [klass |-> "none", past |-> FALSE, fn |-> NoRes, out |-> [token |-> "", err |-> NoErr],
     res |-> [ok |-> FALSE, err |-> NoErr]]

\* history of an operation: whether it made a network call itself, and the back-off waits of
\* its current DoRequestWithRetry
IdleHist == [net |-> FALSE, waits |-> 0]

\* time.Unix(sec, 0), in minutes
TimeUnix(sec) == sec \div 60

\* getExpiredIn without the expiration buffer
getExpiredInNoBuffer(token, t) ==
    IF token.expiredAt = ZeroTime THEN 0
    ELSE LET nextAuthIn == token.expiredAt - t
         IN  IF nextAuthIn < 0 THEN 0 ELSE nextAuthIn

getExpiredIn(token, t) ==
    IF token.expiredAt = ZeroTime THEN 0
    ELSE LET nextAuthIn == (token.expiredAt - t) - TokenExpirationBuffer
         IN  IF nextAuthIn < 0 THEN 0 ELSE nextAuthIn

\* the branch that takes expiredIn = stalenessTokenPeriod for stale
BranchInclusive(expiredIn) ==
    IF expiredIn <= 0 THEN "expired"
    ELSE IF expiredIn <= stalenessTokenPeriod THEN "stale"
    ELSE "fresh"

\* a branch that never finds the credential usable
BranchExpiredAlways(expiredIn) == "expired"

\* the branch with a strict first comparison
BranchStrict(expiredIn) ==
    IF expiredIn < 0 THEN "expired"
    ELSE IF expiredIn < stalenessTokenPeriod THEN "stale"
    ELSE "fresh"

\* the branch GetToken takes on expiredIn
Branch(expiredIn) ==
    IF expiredIn <= 0 THEN "expired"
    ELSE IF expiredIn < stalenessTokenPeriod THEN "stale"
    ELSE "fresh"

\* doGetTokenRequest without the case of status 401
doGetTokenRequestNo401(r) ==
    IF r.err # NoErr THEN [resp |-> NilBody, err |-> r.err]
    ELSE IF r.statusCode # 200
         THEN [resp |-> NilBody, err |-> Err("authentication failed", "status", <<>>)]
    ELSE IF r.body.kind # "json"
         THEN [resp |-> NilBody, err |-> Err("failed to unmarshal authentication response", "json", <<>>)]
    ELSE [resp |-> r.body, err |-> NoErr]

\* doGetTokenRequest that ignores the error of json.Unmarshal
doGetTokenRequestUnchecked(r) ==
    IF r.err # NoErr THEN [resp |-> NilBody, err |-> r.err]
    ELSE IF r.statusCode = 401
         THEN [resp |-> NilBody, err |-> Err("wrong apiKey", "status 401", <<>>)]
    ELSE IF r.statusCode # 200
         THEN [resp |-> NilBody, err |-> Err("authentication failed", "status", <<>>)]
    ELSE [resp |-> r.body, err |-> NoErr]

\* doGetTokenRequest after DoRequestWithRetry has returned r
doGetTokenRequest(r) ==
    IF r.err # NoErr THEN [resp |-> NilBody, err |-> r.err]
    ELSE IF r.statusCode = 401
         THEN [resp |-> NilBody, err |-> Err("wrong apiKey", "status 401", <<>>)]
    ELSE IF r.statusCode # 200
         THEN [resp |-> NilBody, err |-> Err("authentication failed", "status", <<>>)]
    ELSE IF r.body.kind # "json"
         THEN [resp |-> NilBody, err |-> Err("failed to unmarshal authentication response", "json", <<>>)]
    ELSE [resp |-> r.body, err |-> NoErr]

\* an Unlock that leaves the lock with its holder
UnlockSkipped(t) == t

\* a.lock.Unlock() by t, which holds the lock
Unlock(t) == NoThread

\* a GetToken that returns no token where it should return the one it read
CachedResultEmpty(token) == [token |-> "", err |-> NoErr]

\* GetToken's last statement: return token.accessToken, nil
CachedResult(token) == [token |-> token.accessToken, err |-> NoErr]

\* GetToken(ctx) is called by a caller with a context of its own; token(): a.lock.Lock()
GetToken(t) ==
    /\ t \in Callers
    /\ pc[t] = "idle"
    /\ calls < MaxCalls
    /\ calls' = calls + 1
    /\ op' = [op EXCEPT ![t] = "GetToken"]
    /\ lock = NoThread
    /\ lock' = t
    /\ pc' = [pc EXCEPT ![t] = "gt_token_locked"]
    /\ UNCHANGED <<now, tokenWrapper, inflight, spawned, ctxDone, gt, rq, RetryPolicy, netlog, hist>>

\* token() returns a.tokenWrapper with the deferred Unlock; then getExpiredIn(token), where
\* time.Now() returns a value not before its latest, and the branch on expiredIn, where
\* lazyRenewToken only starts a goroutine
TokenUnlock(t) ==
    /\ pc[t] = "gt_token_locked"
    /\ lock' = Unlock(t)
    /\ \E n \in TimePoints :
        /\ n >= now
        /\ now' = n
        /\ LET token == tokenWrapper
               expiredIn == getExpiredIn(token, n)
               b == Branch(expiredIn)
           IN  IF b = "expired"
               THEN /\ gt' = [gt EXCEPT ![t].klass = b, ![t].past = (token.expiredAt - n <= 0)]
                    /\ pc' = [pc EXCEPT ![t] = "rn_do"]
                    /\ spawned' = spawned
               ELSE /\ gt' = [gt EXCEPT ![t].klass = b, ![t].out = CachedResult(token)]
                    /\ pc' = [pc EXCEPT ![t] = "gt_ret"]
                    /\ spawned' = IF b = "stale" THEN spawned + 1 ELSE spawned
    /\ UNCHANGED <<tokenWrapper, inflight, calls, op, ctxDone, rq, RetryPolicy, netlog, hist>>

\* a Do that never finds a call in flight
ExecutesFnAlways(key) == TRUE

\* singleFlight.Do(key, fn) on entry: TRUE when the caller executes fn itself
ExecutesFn(key) == inflight[key] = NoThread

\* renewToken: singleFlight.Do("token-get", fn); the executing thread enters doGetTokenRequest
RenewDo(t) ==
    /\ pc[t] = "rn_do"
    /\ IF ExecutesFn("token-get")
       THEN /\ inflight' = [inflight EXCEPT !["token-get"] = t]
            /\ rq' = [rq EXCEPT ![t] = NewFrame(AuthRetryPolicy, "auth")]
            /\ pc' = [pc EXCEPT ![t] = "rq_loop"]
       ELSE /\ pc' = [pc EXCEPT ![t] = "rn_wait"]
            /\ UNCHANGED <<inflight, rq>>
    /\ UNCHANGED <<now, tokenWrapper, lock, spawned, calls, op, ctxDone, gt, RetryPolicy, netlog, hist>>

\* fn, once DoRequestWithRetry has returned: the error paths, or on to the store
AuthDecode(t) ==
    /\ pc[t] = "rq_ret"
    /\ rq[t].target = "auth"
    /\ LET d == doGetTokenRequest(DoRequestResult(rq[t]))
       IN  IF d.err # NoErr
           THEN /\ gt' = [gt EXCEPT ![t].fn = [token |-> ZeroToken, err |-> d.err]]
                /\ pc' = [pc EXCEPT ![t] = "sf_done"]
           ELSE /\ gt' = [gt EXCEPT ![t].fn =
                            [token |-> [accessToken |-> d.resp.accessToken,
                                        expiredAt |-> TimeUnix(d.resp.expiredAt)],
                             err |-> NoErr]]
                /\ pc' = [pc EXCEPT ![t] = "rn_store"]
    /\ rq' = [rq EXCEPT ![t] = IdleFrame]
    /\ netlog' = [netlog EXCEPT ![t] = <<>>]
    /\ hist' = [hist EXCEPT ![t].waits = 0]
    /\ UNCHANGED <<now, tokenWrapper, lock, inflight, spawned, calls, op, ctxDone, RetryPolicy>>

\* fn: a.lock.Lock()
StoreLock(t) ==
    /\ pc[t] = "rn_store"
    /\ lock = NoThread
    /\ lock' = t
    /\ pc' = [pc EXCEPT ![t] = "rn_locked"]
    /\ UNCHANGED <<now, tokenWrapper, inflight, spawned, calls, op, ctxDone, rq, gt, RetryPolicy, netlog, hist>>

\* a store that assigns the token and leaves the expiry of the credential before it
StoreTokenOnly(t) ==
    /\ pc[t] = "rn_locked"
    /\ tokenWrapper' = [tokenWrapper EXCEPT !.accessToken = gt[t].fn.token.accessToken]
    /\ lock' = Unlock(t)
    /\ pc' = [pc EXCEPT ![t] = "sf_done"]
    /\ UNCHANGED <<now, inflight, spawned, calls, op, ctxDone, rq, gt, RetryPolicy, netlog, hist>>

\* fn: a.tokenWrapper = tokenWrapper{...}; return a.tokenWrapper, nil; the deferred Unlock
StoreUnlock(t) ==
    /\ pc[t] = "rn_locked"
    /\ tokenWrapper' = gt[t].fn.token
    /\ lock' = Unlock(t)
    /\ pc' = [pc EXCEPT ![t] = "sf_done"]
    /\ UNCHANGED <<now, inflight, spawned, calls, op, ctxDone, rq, gt, RetryPolicy, netlog, hist>>

\* a GetToken that refuses a renewed credential whose expiry is not ahead of the clock
AfterRenewRejectsPast(res) ==
    IF res.err # NoErr THEN [token |-> "", err |-> res.err]
    ELSE IF res.token.expiredAt - now <= 0
    THEN [token |-> "", err |-> Err("token expired", "nil", <<>>)]
    ELSE [token |-> res.token.accessToken, err |-> NoErr]

\* a GetToken that hands out the cached token beside the error of a failed renewal
AfterRenewFallback(res) ==
    IF res.err # NoErr THEN [token |-> tokenWrapper.accessToken, err |-> res.err]
    ELSE [token |-> res.token.accessToken, err |-> NoErr]

\* GetToken after renewToken returned (newToken, err)
AfterRenew(res) ==
    IF res.err # NoErr THEN [token |-> "", err |-> res.err]
    ELSE [token |-> res.token.accessToken, err |-> NoErr]

\* a flight whose key stays with the thread that executed fn
ForgetSkipped(t) == t

\* singleflight: when fn has returned in thread t the key is deleted, so the next Do under it
\* executes its own fn
Forget(t) == NoThread

\* a flight that hands its waiters the zero value instead of fn's result
DeliveredZero(fnres) == NoRes

\* what a thread that joined a flight receives when the flight ends with fn's (val, err)
Delivered(fnres) == fnres

\* singleflight: fn has returned; the key is deleted and the executing thread and every waiter
\* return from Do with fn's result, and so from renewToken: to GetToken in a caller, and to the
\* fn of lazyRenewToken in a goroutine, which drops the token and whose error nothing reads
FlightDone(t) ==
    /\ pc[t] = "sf_done"
    /\ inflight' = [inflight EXCEPT !["token-get"] = Forget(t)]
    /\ LET joined == {u \in Threads : pc[u] = "rn_wait"}
           got(u) == IF u = t THEN gt[t].fn ELSE Delivered(gt[t].fn)
       IN  /\ gt' = [u \in Threads |->
                        IF (u = t \/ u \in joined) /\ u \in Callers
                        THEN [gt[u] EXCEPT !.fn = NoRes, !.out = AfterRenew(got(u))]
                        ELSE IF u = t \/ u \in joined
                        THEN IdleGt
                        ELSE gt[u]]
           /\ pc' = [u \in Threads |->
                        IF u = t \/ u \in joined
                        THEN (IF u \in Callers THEN "gt_ret" ELSE "rn_ret")
                        ELSE pc[u]]
    /\ UNCHANGED <<now, tokenWrapper, lock, spawned, calls, op, ctxDone, rq, RetryPolicy, netlog, hist>>

\* the operation returns to its caller, and the thread's locals are dead
Returned(t) ==
    /\ pc' = [pc EXCEPT ![t] = "idle"]
    /\ op' = [op EXCEPT ![t] = "none"]
    /\ ctxDone' = [ctxDone EXCEPT ![t] = FALSE]
    /\ gt' = [gt EXCEPT ![t] = IdleGt]
    /\ rq' = [rq EXCEPT ![t] = IdleFrame]
    /\ netlog' = [netlog EXCEPT ![t] = <<>>]
    /\ hist' = [hist EXCEPT ![t] = IdleHist]

\* GetToken returns gt[t].out, its (token, error), to the caller that called it directly
GetTokenReturn(t) ==
    /\ pc[t] = "gt_ret"
    /\ op[t] = "GetToken"
    /\ Returned(t)
    /\ UNCHANGED <<now, tokenWrapper, lock, inflight, spawned, calls, RetryPolicy>>

\* a goroutine started by lazyRenewToken runs: singleFlight.Do("token-lazy-renew", fn),
\* and fn makes its context (5 s timeout) and calls renewToken
GoStart(g) ==
    /\ g \in Goroutines
    /\ pc[g] = "idle"
    /\ spawned > 0
    /\ spawned' = spawned - 1
    /\ IF ExecutesFn("token-lazy-renew")
       THEN /\ inflight' = [inflight EXCEPT !["token-lazy-renew"] = g]
            /\ op' = [op EXCEPT ![g] = "lazyRenewToken"]
            /\ pc' = [pc EXCEPT ![g] = "rn_do"]
       ELSE /\ pc' = [pc EXCEPT ![g] = "lz_wait"]
            /\ UNCHANGED <<inflight, op>>
    /\ UNCHANGED <<now, tokenWrapper, lock, calls, ctxDone, rq, gt, RetryPolicy, netlog, hist>>

\* the goroutine's fn returns: the lazy key is deleted, its waiters are released, all results dropped
GoDone(g) ==
    /\ pc[g] = "rn_ret"
    /\ g \in Goroutines
    /\ inflight' = [inflight EXCEPT !["token-lazy-renew"] = Forget(g)]
    /\ pc' = [u \in Threads |-> IF u = g \/ pc[u] = "lz_wait" THEN "idle" ELSE pc[u]]
    /\ op' = [op EXCEPT ![g] = "none"]
    /\ ctxDone' = [ctxDone EXCEPT ![g] = FALSE]
    /\ gt' = [gt EXCEPT ![g] = IdleGt]
    /\ netlog' = [netlog EXCEPT ![g] = <<>>]
    /\ hist' = [hist EXCEPT ![g] = IdleHist]
    /\ UNCHANGED <<now, tokenWrapper, lock, spawned, calls, rq, RetryPolicy>>

\* where a thread looks at its context, or is blocked with it: GetToken does not read its
\* context again once a network call has returned a response that ends the loop
CancelPoints(o) ==
    IF o \in {"GetToken", "lazyRenewToken"} THEN {"rq_loop", "rq_wait", "rn_wait"}
    ELSE {"rq_loop", "rq_call", "rq_wait", "rn_wait"}

\* the context of a running operation is cancelled or reaches its deadline
CancelCtx(t) ==
    /\ pc[t] \in CancelPoints(op[t])
    /\ ~ctxDone[t]
    /\ ctxDone' = [ctxDone EXCEPT ![t] = TRUE]
    /\ UNCHANGED <<now, tokenWrapper, lock, inflight, spawned, calls, pc, op, rq, gt, RetryPolicy, netlog, hist>>

---------------------------------------------------------------------------
(* The Authenticator under concurrent GetToken calls *)

\* NewAuthenticator: nothing cached, nothing in flight
Start ==
    /\ now = 0
    /\ tokenWrapper = ZeroToken
    /\ lock = NoThread
    /\ inflight = [k \in {"token-get", "token-lazy-renew"} |-> NoThread]
    /\ spawned = 0
    /\ calls = 0
    /\ pc = [t \in Threads |-> "idle"]
    /\ op = [t \in Threads |-> "none"]
    /\ ctxDone = [t \in Threads |-> FALSE]
    /\ rq = [t \in Threads |-> IdleFrame]
    /\ gt = [t \in Threads |-> IdleGt]
    /\ netlog = [t \in Threads |-> <<>>]
    /\ hist = [t \in Threads |-> IdleHist]

Init ==
    /\ Start
    /\ RetryPolicy = ZeroPolicy

Next ==
    \E t \in Threads :
        \/ GetToken(t)
        \/ TokenUnlock(t)
        \/ RenewDo(t)
        \/ RqLoop(t)
        \/ RqCall(t)
        \/ RqWaitTimer(t)
        \/ RqWaitCtx(t)
        \/ AuthDecode(t)
        \/ StoreLock(t)
        \/ StoreUnlock(t)
        \/ FlightDone(t)
        \/ GetTokenReturn(t)
        \/ GoStart(t)
        \/ GoDone(t)
        \/ CancelCtx(t)

Spec == Init /\ [][Next]_vars

\* the steps a thread takes by itself once GetToken was called or a goroutine was started
Progress(t) ==
    \/ TokenUnlock(t)
    \/ RenewDo(t)
    \/ RqLoop(t)
    \/ RqCall(t)
    \/ RqWaitTimer(t)
    \/ AuthDecode(t)
    \/ StoreUnlock(t)
    \/ FlightDone(t)
    \/ GetTokenReturn(t)
    \/ GoStart(t)
    \/ GoDone(t)

\* the Authenticator with what the return of its calls is conditional on: a thread that can
\* take a step is scheduled, every client.Do returns, every timer fires, and a free mutex is
\* taken by a thread that waits for it
SpecFair ==
    /\ Spec
    /\ WF_vars(\E t \in Threads : Progress(t) \/ StoreLock(t))

---------------------------------------------------------------------------
(* DoRequestWithRetry on its own: one caller, every policy, every endpoint behaviour *)

\* DoRequestWithRetry returns its three values to the caller
DoRequestReturn(t) ==
    /\ pc[t] = "rq_ret"
    /\ op[t] = "DoRequestWithRetry"
    /\ Returned(t)
    /\ UNCHANGED <<now, tokenWrapper, lock, inflight, spawned, calls, RetryPolicy>>

NextRetry ==
    \E t \in {"c1"} :
        \/ DoRequestWithRetry(t)
        \/ RqLoop(t)
        \/ RqCall(t)
        \/ RqWaitTimer(t)
        \/ RqWaitCtx(t)
        \/ CancelCtx(t)
        \/ DoRequestReturn(t)

SpecRetry == Init /\ [][NextRetry]_vars

\* one call of DoRequestWithRetry with what its termination is conditional on: the goroutine
\* that runs it is scheduled, every client.Do returns, and the timer of time.After fires
NextRetryOnce ==
    \E t \in {"c1"} :
        \/ (calls = 0 /\ DoRequestWithRetry(t))
        \/ RqLoop(t)
        \/ RqCall(t)
        \/ RqWaitTimer(t)
        \/ RqWaitCtx(t)
        \/ CancelCtx(t)
        \/ DoRequestReturn(t)

SpecRetryFair ==
    /\ Init
    /\ [][NextRetryOnce]_vars
    /\ WF_vars(RqLoop("c1") \/ RqCall("c1") \/ RqWaitTimer("c1"))

---------------------------------------------------------------------------
(* RetryPolicy.getBackoffForAttempt on its own: every factor, the attempts of one loop *)

\* ExponentialBackoffFactor in tenths: negative, zero, below 1, 1 to 3, above 3
BackoffFactors == (-5)..45

\* policies that allow the most attempts, 5 after the clamp, with each of the factors
BackoffPolicies ==
    [MaxAttempts : {5, 6}, IntervalMs : {200}, ExponentialBackoffFactor : BackoffFactors]

InitBackoff ==
    /\ Start
    /\ RetryPolicy \in BackoffPolicies

\* policy.getBackoffForAttempt(retryAttempt) in the first iteration of the loop
BackoffFirst(t) ==
    /\ pc[t] = "idle"
    /\ calls = 0
    /\ calls' = 1
    /\ op' = [op EXCEPT ![t] = "getBackoffForAttempt"]
    /\ rq' = [rq EXCEPT ![t] = [NewFrame(RetryPolicy, "none") EXCEPT
                                   !.duration = getBackoffForAttempt(RetryPolicy, 0)]]
    /\ pc' = [pc EXCEPT ![t] = "backoff"]
    /\ UNCHANGED <<now, tokenWrapper, lock, inflight, spawned, ctxDone, gt, RetryPolicy, netlog, hist>>

\* retryAttempt++ while the loop condition allows it, and policy.getBackoffForAttempt(retryAttempt)
BackoffNext(t) ==
    /\ pc[t] = "backoff"
    /\ rq[t].retryAttempt + 1 < getMaxAttempts(rq[t].policy)
    /\ rq' = [rq EXCEPT ![t].retryAttempt = @ + 1,
                         ![t].duration = getBackoffForAttempt(rq[t].policy, rq[t].retryAttempt + 1)]
    /\ UNCHANGED <<now, tokenWrapper, lock, inflight, spawned, calls, pc, op, ctxDone, gt, RetryPolicy, netlog, hist>>

NextBackoff ==
    \E t \in {"c1"} :
        \/ BackoffFirst(t)
        \/ BackoffNext(t)

SpecBackoff == InitBackoff /\ [][NextBackoff]_vars

---------------------------------------------------------------------------
(* qwak.RealTimeClient: Predict calls of one caller, with the background renewals they    *)
(* start, which one goroutine at a time runs                                              *)

\* modelId of a prediction request
ModelIds == {"", "model"}

\* RetryPolicy of RealTimeClientConfig: the default (no retry) and the basic back-off policy
ClientPolicies == {ZeroPolicy, BasicExponentialBackoffRetryPolicy}

\* PredictWithCtx is called: the modelId check, then GetToken(ctx) up to a.lock.Lock()
PredictWithCtx(t) ==
    /\ t \in Callers
    /\ pc[t] = "idle"
    /\ calls < MaxCalls
    /\ calls' = calls + 1
    /\ op' = [op EXCEPT ![t] = "Predict"]
    /\ \E modelId \in ModelIds :
          IF modelId = ""
          THEN /\ gt' = [gt EXCEPT ![t].res =
                          [ok |-> FALSE, err |-> Err("model id is missing in request", "nil", <<>>)]]
               /\ pc' = [pc EXCEPT ![t] = "pr_ret"]
               /\ lock' = lock
          ELSE /\ lock = NoThread
               /\ lock' = t
               /\ pc' = [pc EXCEPT ![t] = "gt_token_locked"]
               /\ gt' = gt
    /\ UNCHANGED <<now, tokenWrapper, inflight, spawned, ctxDone, rq, RetryPolicy, netlog, hist>>

\* a prediction request built without the token
GetPredictionRequestNoToken(token) == [authorization |-> <<"Bearer", "">>]

\* http.GetPredictionRequest(ctx, predictionUrl, token, pandaOrientedDf): of the request it
\* builds, the authorization header "Bearer <token>"
GetPredictionRequest(token) == [authorization |-> <<"Bearer", token>>]

\* GetToken has returned to PredictWithCtx: its error ends the call, its token goes into the
\* request that DoRequestWithRetry is called with, under c.RetryPolicy
PredictToken(t) ==
    /\ pc[t] = "gt_ret"
    /\ op[t] = "Predict"
    /\ IF gt[t].out.err # NoErr
       THEN /\ gt' = [gt EXCEPT ![t].res =
                       [ok |-> FALSE,
                        err |-> Err("qwak client failed to predict", gt[t].out.err.kind, <<>>)]]
            /\ pc' = [pc EXCEPT ![t] = "pr_ret"]
            /\ rq' = rq
       ELSE /\ rq' = [rq EXCEPT ![t] =
                        [NewFrame(RetryPolicy, "inference") EXCEPT
                            !.authorization = GetPredictionRequest(gt[t].out.token).authorization]]
            /\ pc' = [pc EXCEPT ![t] = "rq_loop"]
            /\ gt' = gt
    /\ UNCHANGED <<now, tokenWrapper, lock, inflight, spawned, calls, op, ctxDone, RetryPolicy, netlog, hist>>

\* a PredictWithCtx that takes every 2xx status for a prediction
PredictResultAny2xx(r) ==
    IF r.err # NoErr
    THEN [ok |-> FALSE, err |-> Err("qwak client failed to send predict request", r.err.kind, r.err.errs)]
    ELSE IF r.statusCode < 200 \/ r.statusCode >= 300
    THEN [ok |-> FALSE, err |-> Err("qwak prediction failed", "status", <<>>)]
    ELSE IF r.body.kind # "json"
    THEN [ok |-> FALSE, err |-> Err("qwak client failed to parse response from model", "json", <<>>)]
    ELSE [ok |-> TRUE, err |-> NoErr]

\* PredictWithCtx after DoRequestWithRetry has returned r
PredictResult(r) ==
    IF r.err # NoErr
    THEN [ok |-> FALSE, err |-> Err("qwak client failed to send predict request", r.err.kind, r.err.errs)]
    ELSE IF r.statusCode # 200
    THEN [ok |-> FALSE, err |-> Err("qwak prediction failed", "status", <<>>)]
    ELSE IF r.body.kind # "json"
    THEN [ok |-> FALSE, err |-> Err("qwak client failed to parse response from model", "json", <<>>)]
    ELSE [ok |-> TRUE, err |-> NoErr]

\* DoRequestWithRetry has returned to PredictWithCtx
PredictDecode(t) ==
    /\ pc[t] = "rq_ret"
    /\ rq[t].target = "inference"
    /\ gt' = [gt EXCEPT ![t].res = PredictResult(DoRequestResult(rq[t]))]
    /\ pc' = [pc EXCEPT ![t] = "pr_ret"]
    /\ UNCHANGED <<now, tokenWrapper, lock, inflight, spawned, calls, op, ctxDone, rq, RetryPolicy, netlog, hist>>

\* PredictWithCtx returns gt[t].res
PredictReturn(t) ==
    /\ pc[t] = "pr_ret"
    /\ Returned(t)
    /\ UNCHANGED <<now, tokenWrapper, lock, inflight, spawned, calls, RetryPolicy>>

InitPredict ==
    /\ Start
    /\ RetryPolicy \in ClientPolicies

NextPredict ==
    \E t \in {"c1", "g1"} :
        \/ PredictWithCtx(t)
        \/ TokenUnlock(t)
        \/ RenewDo(t)
        \/ RqLoop(t)
        \/ RqCall(t)
        \/ RqWaitTimer(t)
        \/ RqWaitCtx(t)
        \/ AuthDecode(t)
        \/ StoreLock(t)
        \/ StoreUnlock(t)
        \/ FlightDone(t)
        \/ PredictToken(t)
        \/ PredictDecode(t)
        \/ PredictReturn(t)
        \/ GoStart(t)
        \/ GoDone(t)
        \/ CancelCtx(t)

SpecPredict == InitPredict /\ [][NextPredict]_vars

---------------------------------------------------------------------------
(* Properties of DoRequestWithRetry *)

Clamp(x, lo, hi) == IF x < lo THEN lo ELSE IF x > hi THEN hi ELSE x

\* an attempt that failed: no response, a response that could not be read, or a status >= 500
RetryableFailure(e) == e.transport \/ ~e.bodyOk \/ e.status >= 500

\* an attempt that brought a response, read in full, with a status below 500
FinalResponse(e) == ~e.transport /\ e.bodyOk /\ e.status < 500

\* threads whose DoRequestWithRetry has left its loop and is about to return
AtReturn == {t \in Threads : pc[t] = "rq_ret"}

\* C7: retry exhaustion.  When every call of a DoRequestWithRetry was answered with a status
\* >= 500 and its context was never cancelled, then with n the policy's MaxAttempts clamped to
\* [1,5] it made exactly n network calls and returns a non-nil error citing exactly n attempt
\* failures, none discarded, tagged 0..n-1 in order.
C7_RetryExhaustion ==
    \A t \in AtReturn :
        (/\ ~ctxDone[t]
         /\ \A i \in DOMAIN netlog[t] : ~netlog[t][i].transport /\ netlog[t][i].status >= 500)
        => LET n == Clamp(rq[t].policy.MaxAttempts, 1, 5)
               r == DoRequestResult(rq[t])
           IN  /\ Len(netlog[t]) = n
               /\ r.err # NoErr
               /\ Len(r.err.errs) = n
               /\ \A i \in 1..n : r.err.errs[i].attempt = i - 1 /\ ~r.err.errs[i].discarded

\* five 503 answers under a policy of 5 attempts, the context never cancelled
C7_Witness ==
    \E t \in AtReturn :
        /\ ~ctxDone[t]
        /\ rq[t].policy = BasicExponentialBackoffRetryPolicy
        /\ Len(netlog[t]) = 5
        /\ \A i \in 1..5 : ~netlog[t][i].transport /\ netlog[t][i].bodyOk /\ netlog[t][i].status = 503

\* C8: retry until the first non-retryable outcome.  When the first k-1 attempts of a
\* DoRequestWithRetry were retryable failures and the k-th brought a response with a status
\* below 500, it made exactly k network calls and returns the k-th response's body and status
\* with a nil error.
C8_RetryUntilFinal ==
    \A t \in AtReturn :
        \A k \in DOMAIN netlog[t] :
            (/\ \A i \in 1..(k - 1) : RetryableFailure(netlog[t][i])
             /\ FinalResponse(netlog[t][k]))
            => LET r == DoRequestResult(rq[t])
               IN  /\ Len(netlog[t]) = k
                   /\ k <= Clamp(rq[t].policy.MaxAttempts, 1, 5)
                   /\ r.body = netlog[t][k].body
                   /\ r.statusCode = netlog[t][k].status
                   /\ r.err = NoErr

\* 503, 503, 200 under the policy of 5 attempts with factor 1.5
C8_Witness ==
    \E t \in AtReturn :
        /\ rq[t].policy = AuthRetryPolicy
        /\ Len(netlog[t]) = 3
        /\ \A i \in 1..2 : ~netlog[t][i].transport /\ netlog[t][i].bodyOk /\ netlog[t][i].status = 503
        /\ FinalResponse(netlog[t][3]) /\ netlog[t][3].status = 200
        /\ DoRequestResult(rq[t]).statusCode = 200
        /\ DoRequestResult(rq[t]).err = NoErr

\* C9: a response with a status below 500 whose body was read is never retried.  Once an
\* attempt of a DoRequestWithRetry brought such a response, that attempt is its last network
\* call: it neither calls again nor waits, whatever the policy, and it returns that response
\* with a nil error.
C9_NoRetryBelow500 ==
    \A t \in Threads :
        \A i \in DOMAIN netlog[t] :
            FinalResponse(netlog[t][i])
            => /\ i = Len(netlog[t])
               /\ pc[t] \in {"rq_loop", "rq_ret"}
               /\ ~LoopCondition(rq[t])
               /\ DoRequestResult(rq[t]) =
                      [body |-> netlog[t][i].body, statusCode |-> netlog[t][i].status, err |-> NoErr]

\* a 401 on the first call under a policy of 5 attempts: one network call, returned as it is
C9_Witness ==
    \E t \in AtReturn :
        /\ getMaxAttempts(rq[t].policy) = 5
        /\ Len(netlog[t]) = 1
        /\ FinalResponse(netlog[t][1]) /\ netlog[t][1].status = 401
        /\ DoRequestResult(rq[t]).statusCode = 401

\* a response arrived and reading its body failed
BodyReadFailure(e) == ~e.transport /\ ~e.bodyOk

\* C31: a failure to read the body is a failed attempt whatever the status.  When the i-th
\* network call of a DoRequestWithRetry brought a response whose body could not be read, the
\* failure is cited as attempt i-1 with the response's status; while the context is live and
\* attempts remain another network call follows; and when it was the last attempt the policy
\* allows, that status is returned with no body and a non-nil aggregated error.
C31_BodyFailureRetried ==
    \A t \in AtReturn :
        \A i \in DOMAIN netlog[t] :
            BodyReadFailure(netlog[t][i])
            => LET n == Clamp(rq[t].policy.MaxAttempts, 1, 5)
                   r == DoRequestResult(rq[t])
               IN  /\ \E j \in DOMAIN rq[t].errs :
                          /\ rq[t].errs[j].attempt = i - 1
                          /\ ~rq[t].errs[j].discarded
                          /\ rq[t].errs[j].err = "body"
                          /\ rq[t].errs[j].code = netlog[t][i].status
                   /\ (i < n /\ ~ctxDone[t]) => Len(netlog[t]) > i
                   /\ i = n => /\ Len(netlog[t]) = n
                              /\ r.statusCode = netlog[t][i].status
                              /\ r.body = NilBody
                              /\ r.err # NoErr
                              /\ Len(r.err.errs) >= 1

\* under a policy of 2 attempts and a live context, a 200 whose body could not be read is
\* followed by a second call, which brings another such 200: status 200 is returned with an
\* error that cites both attempts
C31_Witness ==
    \E t \in AtReturn :
        /\ ~ctxDone[t]
        /\ getMaxAttempts(rq[t].policy) = 2
        /\ Len(netlog[t]) = 2
        /\ \A i \in 1..2 : BodyReadFailure(netlog[t][i]) /\ netlog[t][i].status = 200
        /\ DoRequestResult(rq[t]).statusCode = 200
        /\ DoRequestResult(rq[t]).err # NoErr
        /\ Len(DoRequestResult(rq[t]).err.errs) = 2

\* the policy with its factor inside [1, 3]
ClampedFactor(r) == [r EXCEPT !.ExponentialBackoffFactor = Clamp(@, 10, 30)]

\* the thread has a result of getBackoffForAttempt in rq[t].duration
HasBackoff(t) == pc[t] = "backoff"

CancellationError(r) ==
    /\ r.err # NoErr
    /\ r.err.errs # <<>>
    /\ LET last == r.err.errs[Len(r.err.errs)]
       IN  last.discarded /\ last.err = "ctx"

\* attempts remain after the current back-off wait of t
AttemptsRemain(t) == rq[t].retryAttempt + 1 < Clamp(rq[t].policy.MaxAttempts, 1, 5)

\* C11: cancellation during the back-off wait.  When the context is done while
\* DoRequestWithRetry waits after a failed attempt that is not the last one allowed, the wait
\* can end at once, the steps that follow go to the return without a network call, and the
\* error returned is non-nil and cites the cancellation as the reason the next attempt was
\* discarded.
C11_CancelDuringBackoff ==
    [][\A t \in Threads :
          /\ (pc[t] = "rq_wait" /\ ctxDone[t] /\ pc'[t] # "rq_wait")
                => /\ pc'[t] = "rq_loop"
                   /\ netlog'[t] = netlog[t]
                   /\ ctxDone'[t]
                   /\ AttemptsRemain(t) => LoopCondition(rq'[t])
          /\ (pc[t] = "rq_loop" /\ ctxDone[t] /\ pc'[t] # "rq_loop")
                => /\ pc'[t] = "rq_ret"
                   /\ netlog'[t] = netlog[t]
                   /\ LoopCondition(rq[t])
                         => /\ CancellationError(DoRequestResult(rq'[t]))
                            /\ rq'[t].errs[Len(rq'[t].errs)].attempt = rq[t].retryAttempt
          /\ (pc[t] = "rq_ret" /\ pc'[t] # "rq_ret") => pc'[t] \notin {"rq_loop", "rq_call", "rq_wait"}]_vars

\* a 503 on the first call of a policy of 5 attempts, the context done during the wait that
\* followed: one network call, one wait, and the error cites attempt 0 and the discarded
\* attempt 1
C11_Witness ==
    \E t \in AtReturn :
        /\ ctxDone[t]
        /\ getMaxAttempts(rq[t].policy) = 5
        /\ Len(netlog[t]) = 1 /\ netlog[t][1].status = 503
        /\ hist[t].waits = 1
        /\ Len(rq[t].errs) = 2
        /\ rq[t].errs[2] = [attempt |-> 1, discarded |-> TRUE, err |-> "ctx", code |-> 0]
        /\ CancellationError(DoRequestResult(rq[t]))

\* C12: an iteration that begins on a done context.  Such an iteration makes no network call
\* and ends the loop with a non-nil error; once the context is done and the current call (if
\* any) is over, no further call is made, so a context that is done during the k-th call
\* leaves exactly k calls, and one done before the first iteration leaves none.
C12_DoneContextStopsCalls ==
    [][\A t \in Threads :
          /\ (pc[t] = "rq_loop" /\ LoopCondition(rq[t]) /\ ctxDone[t] /\ pc'[t] # "rq_loop")
                => /\ pc'[t] = "rq_ret"
                   /\ netlog'[t] = netlog[t]
                   /\ DoRequestResult(rq'[t]).err # NoErr
                   /\ rq[t].retryAttempt = 0 => netlog'[t] = <<>>
          /\ (pc[t] = "rq_call" /\ ctxDone[t] /\ pc'[t] # "rq_call")
                => Len(netlog'[t]) = rq[t].retryAttempt + 1
          /\ (pc[t] \in {"rq_loop", "rq_wait", "rq_ret"} /\ ctxDone[t] /\ rq'[t].target = rq[t].target)
                => /\ netlog'[t] = netlog[t]
                   /\ pc'[t] # "rq_call"]_vars

\* two 503 answers, then a third call that fails in transport on the expired deadline: the
\* fourth iteration is discarded, three calls were made and the error is non-nil
C12_Witness ==
    \E t \in AtReturn :
        /\ ctxDone[t]
        /\ getMaxAttempts(rq[t].policy) = 5
        /\ Len(netlog[t]) = 3
        /\ netlog[t][1].status = 503 /\ netlog[t][2].status = 503 /\ netlog[t][3].transport
        /\ Len(rq[t].errs) = 4
        /\ rq[t].errs[4].discarded /\ rq[t].errs[4].attempt = 3
        /\ DoRequestResult(rq[t]).err # NoErr

\* C13: the attempt budget.  At every moment of a DoRequestWithRetry the network calls it has
\* made number at most its policy's MaxAttempts clamped to [1,5]; and under a policy whose
\* MaxAttempts is 1 or below (the zero-value policy included), with no iteration discarded and
\* every answer a 503, it returns after exactly one call with status 503 and a non-nil error.
C13_AttemptBudget ==
    \A t \in Threads :
        /\ Len(netlog[t]) <= Clamp(rq[t].policy.MaxAttempts, 1, 5)
        /\ (/\ pc[t] = "rq_ret"
            /\ rq[t].policy.MaxAttempts <= 1
            /\ \A i \in DOMAIN rq[t].errs : ~rq[t].errs[i].discarded
            /\ \A i \in DOMAIN netlog[t] : ~netlog[t][i].transport /\ netlog[t][i].status = 503)
           => LET r == DoRequestResult(rq[t])
              IN  /\ Len(netlog[t]) = 1
                  /\ r.statusCode = 503
                  /\ r.err # NoErr
                  /\ Len(r.err.errs) = 1

\* the zero-value policy and a 503: one call, status 503 and an error
C13_Witness ==
    \E t \in AtReturn :
        /\ rq[t].policy = ZeroPolicy
        /\ ~ctxDone[t]
        /\ Len(netlog[t]) = 1
        /\ ~netlog[t][1].transport /\ netlog[t][1].bodyOk /\ netlog[t][1].status = 503
        /\ DoRequestResult(rq[t]).statusCode = 503
        /\ DoRequestResult(rq[t]).err # NoErr

\* the wait the documentation of RetryPolicy and the specification give for an attempt:
\* floor(IntervalMs * factor^attempt) squared, factor limited to [1,3] and held in tenths
DocumentedDelay(r, attempt) ==
    LET f0 == r.ExponentialBackoffFactor
        f1 == IF f0 < 10 THEN 10 ELSE f0
        factor == IF f1 > 30 THEN 30 ELSE f1
        m == (r.IntervalMs * Pow(factor, attempt)) \div Pow(10, attempt)
    IN  m * m

\* C21 as stated: the back-off wait after a failed attempt lasts
\* floor(intervalMs * clamp(factor, 1, 3)^attempt)^2 milliseconds.
C21_Original ==
    \A t \in Threads :
        pc[t] = "rq_wait"
        => rq[t].duration = DocumentedDelay(rq[t].policy, rq[t].retryAttempt)

\* C25 as stated: DoRequestWithRetry waits for the back-off delay only if attempts remain;
\* after the failure of the last attempt allowed it performs no wait.
C25_Original ==
    \A t \in Threads :
        /\ pc[t] = "rq_wait" => AttemptsRemain(t)
        /\ pc[t] = "rq_ret" => hist[t].waits < Clamp(rq[t].policy.MaxAttempts, 1, 5)

\* the calls of t that brought a response from the server
Received(t) == {i \in DOMAIN netlog[t] : ~netlog[t][i].transport}

\* the latest of them
LastReceived(t) == CHOOSE i \in Received(t) : \A j \in Received(t) : j <= i

\* C26 as stated: when DoRequestWithRetry returns an error after its attempts, the status it
\* returns is that of the last response received from the server, and the body that
\* response's body when it was read.
C26_Original ==
    \A t \in AtReturn :
        (DoRequestResult(rq[t]).err # NoErr /\ Received(t) # {})
        => LET last == netlog[t][LastReceived(t)]
           IN  /\ DoRequestResult(rq[t]).statusCode = last.status
               /\ last.bodyOk => DoRequestResult(rq[t]).body = last.body

\* t is inside the loop of DoRequestWithRetry
InLoop(t) == pc[t] \in {"rq_loop", "rq_call", "rq_wait"}

\* the last attempt t performed brought a response, read in full, with a status below 500
LastAttemptFinal(t) == netlog[t] # <<>> /\ FinalResponse(netlog[t][Len(netlog[t])])

\* C27: termination.  Every DoRequestWithRetry that has entered its loop reaches its return;
\* there, its last attempt brought a final response, or it has made as many attempts as
\* MaxAttempts clamped to [1,5] allows, or its last iteration was discarded on a done context;
\* and the error it returns is nil exactly in the first case.
C27_Terminates ==
    /\ InLoop("c1") ~> (pc["c1"] = "rq_ret")
    /\ [](\A t \in AtReturn :
            /\ \/ LastAttemptFinal(t)
               \/ Len(netlog[t]) = Clamp(rq[t].policy.MaxAttempts, 1, 5)
               \/ (rq[t].errs # <<>> /\ rq[t].errs[Len(rq[t].errs)].discarded)
            /\ (DoRequestResult(rq[t]).err = NoErr) <=> LastAttemptFinal(t))

\* a call that ended by exhaustion: three failed attempts under a policy of 3, three waits, no
\* cancellation, and an error
C27_Witness ==
    \E t \in AtReturn :
        /\ ~ctxDone[t]
        /\ rq[t].policy.MaxAttempts = 3
        /\ Len(netlog[t]) = 3
        /\ hist[t].waits = 3
        /\ ~LastAttemptFinal(t)
        /\ DoRequestResult(rq[t]).err # NoErr

---------------------------------------------------------------------------
(* Properties of the Authenticator *)

\* the step of t in which token() returns and GetToken branches
Branches(t) == pc[t] = "gt_token_locked" /\ pc'[t] # "gt_token_locked"

\* GetToken's outcome "the cached token, no error", as of the state before the step
ReturnsCached(t) ==
    /\ pc'[t] = "gt_ret"
    /\ gt'[t].out = [token |-> tokenWrapper.accessToken, err |-> NoErr]

\* the cached credential is set
IsSet == tokenWrapper.expiredAt # ZeroTime

\* expiresAt - now of the cached credential, without the buffer, with the clock reading n
RemainingAt(n) == tokenWrapper.expiredAt - n

\* expiresAt - now as the branching step reads it
Remaining == RemainingAt(now')

\* the step of t that ends the flight it executes
EndsFlight(t) == pc[t] = "sf_done" /\ pc'[t] # "sf_done"

\* C1 as stated: concurrent GetToken calls that all read a credential with
\* expiresAt - now <= 0 (or unset) result in exactly one authentication network call in total
\* and return the same token or the same error.
C1_Original ==
    \A t \in Callers : \A u \in Callers \ {t} :
        (gt[t].klass = "expired" /\ gt[t].past /\ gt[u].klass = "expired" /\ gt[u].past)
        => /\ (rq[t].target = "auth" /\ pc[u] = "rn_wait") => Len(netlog[t]) <= 1
           /\ (pc[t] = "gt_ret" /\ pc[u] = "gt_ret")
                  => gt[t].out = gt[u].out /\ ~(hist[t].net /\ hist[u].net)

\* C1: GetToken calls that wait on the same renewal receive, when it ends, the result of the
\* thread that executes it, token or error; a waiting call makes no network call itself, and
\* the executing call makes at most 5, one per attempt of its DoRequestWithRetry.
C1_Coalesced ==
    [][\A t \in Threads :
          /\ pc[t] = "rn_wait" => ~hist[t].net /\ netlog[t] = <<>>
          /\ rq[t].target = "auth" => Len(netlog[t]) <= 5
          /\ EndsFlight(t)
                => \A u \in Threads :
                      pc[u] = "rn_wait"
                      => /\ pc'[u] = (IF u \in Callers THEN "gt_ret" ELSE "rn_ret")
                         /\ u \in Callers => gt'[u].out = AfterRenew(gt[t].fn)
                         /\ (u \in Callers /\ t \in Callers) => gt'[u].out = gt'[t].out]_vars

\* two GetToken calls, the only ones so far, both found nothing cached; one made the network
\* calls, the other none, and both hold the same renewed token
C1_Witness ==
    \E t \in Callers : \E u \in Callers \ {t} :
        /\ calls = 2
        /\ pc[t] = "gt_ret" /\ pc[u] = "gt_ret"
        /\ gt[t].klass = "expired" /\ gt[u].klass = "expired"
        /\ gt[t].past /\ gt[u].past
        /\ hist[t].net /\ ~hist[u].net
        /\ gt[t].out.err = NoErr
        /\ gt[t].out.token # ""
        /\ gt[u].out = gt[t].out

\* C2 as stated: with 0 < expiresAt - now <= stalenessThreshold, GetToken returns the cached
\* token synchronously.
C2_Original ==
    [][\A t \in Callers :
          (Branches(t) /\ IsSet /\ 0 < Remaining /\ Remaining <= stalenessTokenPeriod)
          => ReturnsCached(t)]_vars

\* C2: with 0 < expiresAt - now - buffer < stalenessThreshold, GetToken returns the cached
\* token synchronously, without a network call of its own, and starts one background renewal;
\* of the background renewals started, at most one executes at a time and the others wait
\* for it.
C2_StaleReturnsCached ==
    [][/\ \A t \in Callers :
            (/\ Branches(t) /\ IsSet
             /\ 0 < Remaining - TokenExpirationBuffer
             /\ Remaining - TokenExpirationBuffer < stalenessTokenPeriod)
            => /\ ReturnsCached(t)
               /\ ~hist'[t].net
               /\ spawned' = spawned + 1
       /\ Cardinality({g \in Goroutines : op[g] = "lazyRenewToken"}) <= 1]_vars

\* two GetToken calls found the credential stale at the same time: both hold the cached token,
\* a background renewal executes and the second goroutine waits for it
C2_Witness ==
    \E t \in Callers : \E u \in Callers \ {t} : \E g \in Goroutines : \E h \in Goroutines :
        /\ pc[t] = "gt_ret" /\ gt[t].klass = "stale"
        /\ pc[u] = "gt_ret" /\ gt[u].klass = "stale"
        /\ gt[t].out = [token |-> tokenWrapper.accessToken, err |-> NoErr]
        /\ gt[u].out = gt[t].out
        /\ pc[g] = "rq_call" /\ op[g] = "lazyRenewToken"
        /\ pc[h] = "lz_wait"

\* C3 as stated: with expiresAt - now > stalenessThreshold, GetToken returns the cached token
\* and starts neither a renewal nor a background renewal.
C3_Original ==
    [][\A t \in Callers :
          (Branches(t) /\ IsSet /\ Remaining > stalenessTokenPeriod)
          => ReturnsCached(t) /\ spawned' = spawned]_vars

\* C3: with expiresAt - now - buffer >= stalenessThreshold, GetToken returns the cached token,
\* makes no network call and starts no background renewal.
C3_FreshNoIO ==
    [][\A t \in Callers :
          (Branches(t) /\ IsSet /\ Remaining >= stalenessTokenPeriod + TokenExpirationBuffer)
          => /\ ReturnsCached(t)
             /\ ~hist'[t].net
             /\ spawned' = spawned
             /\ inflight' = inflight
             /\ rq' = rq]_vars

\* a GetToken call found the credential exactly stalenessThreshold + buffer before its expiry
\* and holds the cached token; nothing is in flight and no goroutine was started
C3_Witness ==
    \E t \in Callers :
        /\ pc[t] = "gt_ret" /\ gt[t].klass = "fresh"
        /\ IsSet /\ RemainingAt(now) = stalenessTokenPeriod + TokenExpirationBuffer
        /\ gt[t].out = [token |-> tokenWrapper.accessToken, err |-> NoErr]
        /\ ~hist[t].net
        /\ spawned = 0
        /\ \A g \in Goroutines : pc[g] = "idle"

\* the authentication network calls in flight
AuthCallsInFlight == {t \in Threads : pc[t] = "rq_call" /\ rq[t].target = "auth"}

\* C4: at most one authentication network call is in flight at a time, whatever the
\* interleaving of GetToken calls and background renewals.
C4_OneRenewalInFlight == Cardinality(AuthCallsInFlight) <= 1

\* the authentication call of a GetToken call is in flight while a background renewal, started
\* when the credential was stale, waits for it
C4_Witness ==
    \E t \in AuthCallsInFlight : \E g \in Goroutines :
        /\ t \in Callers
        /\ op[g] = "lazyRenewToken"
        /\ pc[g] = "rn_wait"

\* the answer that ended the DoRequestWithRetry of t: status 200 with a body that decodes
Answered200(t) ==
    /\ netlog[t] # <<>>
    /\ LET last == netlog[t][Len(netlog[t])]
       IN  ~last.transport /\ last.bodyOk /\ last.status = 200 /\ last.body.kind = "json"

\* C5: the cached credential changes only in the store of a renewal whose authentication
\* call was answered 200 with a decodable body, and then to the decoded credential; a renewal
\* that ends any other way returns an error and leaves the cached credential as it was.
C5_CacheOnlyOnSuccess ==
    [][\A t \in Threads :
          /\ (pc[t] = "rq_ret" /\ rq[t].target = "auth" /\ pc'[t] # "rq_ret")
                => IF Answered200(t) /\ DoRequestResult(rq[t]).err = NoErr
                   THEN /\ pc'[t] = "rn_store"
                        /\ gt'[t].fn.err = NoErr
                        /\ LET b == netlog[t][Len(netlog[t])].body
                           IN  gt'[t].fn.token =
                                  [accessToken |-> b.accessToken, expiredAt |-> b.expiredAt \div 60]
                        /\ tokenWrapper' = tokenWrapper
                   ELSE /\ pc'[t] = "sf_done"
                        /\ gt'[t].fn.err # NoErr
                        /\ tokenWrapper' = tokenWrapper
          /\ (pc[t] = "sf_done" /\ gt[t].fn.err # NoErr) => tokenWrapper' = tokenWrapper
          /\ (pc[t] = "rn_store" /\ pc'[t] # "rn_store") => pc'[t] = "rn_locked" /\ gt'[t].fn = gt[t].fn
          /\ tokenWrapper' # tokenWrapper
                => \E w \in Threads :
                      /\ pc[w] = "rn_locked" /\ pc'[w] = "sf_done"
                      /\ gt[w].fn.err = NoErr
                      /\ tokenWrapper' = gt[w].fn.token]_vars

\* a credential is cached, and a later renewal has ended with an error: the credential is
\* still the cached one
C5_Witness ==
    \E t \in Threads :
        /\ pc[t] = "sf_done"
        /\ gt[t].fn.err # NoErr
        /\ tokenWrapper.accessToken = "jwt-a"

\* the branch that tte = expiresAt - now - buffer of the cached credential selects
Selected ==
    IF ~IsSet \/ Remaining - TokenExpirationBuffer <= 0 THEN "expired"
    ELSE IF Remaining - TokenExpirationBuffer < stalenessTokenPeriod THEN "stale"
    ELSE "fresh"

\* C6: each GetToken call does exactly what the tte of the snapshot it read selects: Fresh
\* returns the cached token and starts nothing; Stale-but-valid returns the cached token and
\* starts one background renewal; Expired (or unset) enters renewToken, starts no goroutine,
\* and returns the token of the renewal when that succeeds, its error otherwise.
C6_ThreeBranches ==
    [][\A t \in Callers :
          /\ Branches(t)
                => /\ gt'[t].klass = Selected
                   /\ Selected = "fresh"
                         => ReturnsCached(t) /\ spawned' = spawned /\ ~hist'[t].net
                   /\ Selected = "stale"
                         => ReturnsCached(t) /\ spawned' = spawned + 1 /\ ~hist'[t].net
                   /\ Selected = "expired"
                         => pc'[t] = "rn_do" /\ spawned' = spawned
          /\ (gt[t].klass = "expired" /\ pc[t] # "gt_ret" /\ pc'[t] = "gt_ret")
                => \E w \in Threads :
                      /\ EndsFlight(w)
                      /\ gt'[t].out =
                            IF gt[w].fn.err = NoErr
                            THEN [token |-> tokenWrapper.accessToken, err |-> NoErr]
                            ELSE [token |-> "", err |-> gt[w].fn.err]
          /\ (pc[t] = "gt_ret" /\ pc'[t] = "gt_ret") => gt'[t].out = gt[t].out]_vars

\* a credential cached with tte = 0 sent a GetToken call into a renewal, and it holds the
\* token that the renewal cached
C6_Witness ==
    \E t \in Callers :
        /\ pc[t] = "gt_ret"
        /\ gt[t].klass = "expired" /\ ~gt[t].past
        /\ hist[t].net
        /\ gt[t].out = [token |-> tokenWrapper.accessToken, err |-> NoErr]

---------------------------------------------------------------------------
(* Properties of a rejected apiKey *)

\* an attempt that the authentication endpoint answered 401
Answer401(e) == ~e.transport /\ e.bodyOk /\ e.status = 401

\* the DoRequestWithRetry of t has returned an answer 401 of the authentication endpoint
Rejected(t) ==
    /\ rq[t].target = "auth"
    /\ netlog[t] # <<>>
    /\ Answer401(netlog[t][Len(netlog[t])])
    /\ DoRequestResult(rq[t]).err = NoErr

\* C10: an answer 401 of the authentication endpoint is the last network call of its renewal,
\* the only one when it is the first answer; the renewal then fails with the error of kind
\* "wrong apiKey", which no other outcome produces; GetToken returns that error; and Predict
\* returns an error that wraps it without calling DoRequestWithRetry for the inference.
C10_BadCredentials ==
    [][\A t \in Threads :
          /\ \A i \in DOMAIN netlog[t] :
                (rq[t].target = "auth" /\ Answer401(netlog[t][i]))
                => /\ i = Len(netlog[t])
                   /\ pc[t] \in {"rq_loop", "rq_ret"}
                   /\ ~LoopCondition(rq[t])
          /\ (pc[t] = "rq_ret" /\ rq[t].target = "auth" /\ pc'[t] # "rq_ret")
                => /\ Rejected(t) <=> gt'[t].fn.err.kind = "wrong apiKey"
                   /\ Rejected(t) => pc'[t] = "sf_done"
          /\ (EndsFlight(t) /\ gt[t].fn.err.kind = "wrong apiKey")
                => \A u \in Callers :
                      (u = t \/ pc[u] = "rn_wait")
                      => pc'[u] = "gt_ret" /\ gt'[u].out = [token |-> "", err |-> gt[t].fn.err]
          /\ (pc[t] = "gt_ret" /\ op[t] = "Predict" /\ pc'[t] # "gt_ret"
                /\ gt[t].out.err.kind = "wrong apiKey")
                => /\ pc'[t] = "pr_ret"
                   /\ ~gt'[t].res.ok
                   /\ gt'[t].res.err # NoErr
                   /\ gt'[t].res.err.cause = "wrong apiKey"
                   /\ rq'[t] = IdleFrame
                   /\ netlog'[t] = <<>>
          /\ (pc[t] = "pr_ret" /\ gt[t].res.err.cause = "wrong apiKey")
                => rq[t] = IdleFrame /\ netlog[t] = <<>>]_vars

\* a Predict call whose own renewal was answered 401 is about to return its error, and no
\* inference call was made
C10_Witness ==
    \E t \in Callers :
        /\ pc[t] = "pr_ret"
        /\ hist[t].net
        /\ gt[t].res.err.kind = "qwak client failed to predict"
        /\ gt[t].res.err.cause = "wrong apiKey"
        /\ netlog[t] = <<>>

\* C14: a failed synchronous renewal.  When the renewal that GetToken calls on the expired
\* branch ends with an error, every GetToken that took part in it returns the empty token and
\* that error, whatever token the cache holds, and the cache is left as it was.
C14_NoFallbackToCached ==
    [][\A t \in Threads :
          (EndsFlight(t) /\ gt[t].fn.err # NoErr)
          => /\ tokenWrapper' = tokenWrapper
             /\ \A u \in Callers :
                   (u = t \/ pc[u] = "rn_wait")
                   => /\ gt[u].klass = "expired"
                      /\ pc'[u] = "gt_ret"
                      /\ gt'[u].out.token = ""
                      /\ gt'[u].out.err = gt[t].fn.err]_vars

\* a caller about to return the error of its failed renewal while the cache still holds the
\* token of an earlier renewal
C14_Witness ==
    \E t \in Callers :
        /\ pc[t] = "gt_ret"
        /\ gt[t].klass = "expired"
        /\ gt[t].out.err # NoErr
        /\ gt[t].out.token = ""
        /\ tokenWrapper.accessToken # ""

\* the step in which GetToken takes the stale branch returns at once: the cached token, a nil
\* error, one goroutine started; and from then to its return nothing changes what it returns,
\* whatever the background renewals do
StaleReturnsAtOnce ==
    \A t \in Callers :
        /\ (Branches(t) /\ gt'[t].klass = "stale")
              => /\ ReturnsCached(t)
                 /\ ~hist'[t].net
                 /\ spawned' = spawned + 1
        /\ (pc[t] = "gt_ret" /\ gt[t].klass = "stale")
              => /\ gt[t].out.err = NoErr
                 /\ pc'[t] = "gt_ret" => gt'[t].out = gt[t].out

\* the context of a background renewal is its own: no step changes it together with the
\* context of a caller
OwnContext ==
    \A t \in Callers : \A g \in Goroutines :
        ctxDone'[t] # ctxDone[t] => ctxDone'[g] = ctxDone[g]

\* the step in which the renewal executed by a goroutine ends with an error
BackgroundFails(g) == g \in Goroutines /\ EndsFlight(g) /\ gt[g].fn.err # NoErr

\* C15 as stated: a stale-but-valid GetToken returns the cached token without waiting, the
\* caller's context is not the background renewal's, and the failure of a background renewal
\* is never reported to any GetToken caller.
C15_Original ==
    [][/\ StaleReturnsAtOnce
       /\ OwnContext
       /\ \A g \in Goroutines :
             BackgroundFails(g) => \A u \in Callers : gt'[u].out = gt[u].out]_vars

\* C15: a stale-but-valid GetToken returns the cached token with a nil error in the step that
\* starts the background renewal, and nothing the background renewal does changes that; the
\* caller's context is not the background renewal's; the failure of a background renewal
\* reaches no call that took the stale or the fresh branch, and reaches exactly the calls of
\* the expired branch that wait on that renewal.
C15_StaleIndependent ==
    [][/\ StaleReturnsAtOnce
       /\ OwnContext
       /\ \A g \in Goroutines :
             BackgroundFails(g)
             => \A u \in Callers :
                   IF pc[u] = "rn_wait"
                   THEN gt[u].klass = "expired" /\ gt'[u].out = [token |-> "", err |-> gt[g].fn.err]
                   ELSE gt'[u].out = gt[u].out]_vars

\* a call that took the stale branch holds the cached token and a nil error while the
\* background renewal in progress has failed
C15_Witness ==
    \E t \in Callers : \E g \in Goroutines :
        /\ pc[t] = "gt_ret" /\ gt[t].klass = "stale"
        /\ gt[t].out = [token |-> tokenWrapper.accessToken, err |-> NoErr]
        /\ gt[t].out.token # ""
        /\ op[g] = "lazyRenewToken" /\ pc[g] = "sf_done"
        /\ gt[g].fn.err # NoErr

\* C16 as stated: a GetToken call on the expired branch whose context is done while it waits
\* returns an error and no token instead of waiting on: from a back-off wait it goes to the
\* head of the next attempt, which it discards, and from the wait on a renewal executed by
\* another thread it returns with an error.
C16_Original ==
    [][\A t \in Callers :
          (op[t] = "GetToken" /\ gt[t].klass = "expired" /\ ctxDone[t])
          => /\ (pc[t] = "rq_wait" /\ pc'[t] # "rq_wait") => pc'[t] = "rq_loop"
             /\ (pc[t] = "rq_loop" /\ LoopCondition(rq[t]) /\ pc'[t] # "rq_loop")
                   => pc'[t] = "rq_ret" /\ DoRequestResult(rq'[t]).err # NoErr
             /\ (pc[t] = "rn_wait" /\ pc'[t] # "rn_wait")
                   => /\ pc'[t] = "gt_ret"
                      /\ gt'[t].out.err # NoErr
                      /\ gt'[t].out.token = ""]_vars

\* the DoRequestWithRetry of a renewal has left its loop in t
RenewalAtReturn(t) == pc[t] = "rq_ret" /\ rq[t].target = "auth"

\* C17: the policy of a renewal.  Every DoRequestWithRetry made for a renewal runs under the
\* policy of 5 attempts, whatever RetryPolicy the client carries; when its context was never
\* done and every answer was a 503 it leaves the loop after exactly 5 authentication calls,
\* and doGetTokenRequest then returns an error.
C17_AuthPolicyFixed ==
    \A t \in Threads :
        rq[t].target = "auth"
        => /\ rq[t].policy.MaxAttempts = 5
           /\ rq[t].policy.ExponentialBackoffFactor = 15
           /\ Len(netlog[t]) <= 5
           /\ (/\ RenewalAtReturn(t)
               /\ ~ctxDone[t]
               /\ \A i \in DOMAIN netlog[t] : netlog[t][i].status = 503)
              => /\ Len(netlog[t]) = 5
                 /\ Len(rq[t].errs) = 5
                 /\ doGetTokenRequest(DoRequestResult(rq[t])).err # NoErr

\* a client without retry whose renewal was answered 503 five times
C17_Witness ==
    \E t \in Callers :
        /\ RetryPolicy = ZeroPolicy
        /\ op[t] = "Predict"
        /\ RenewalAtReturn(t)
        /\ ~ctxDone[t]
        /\ Len(netlog[t]) = 5
        /\ \A i \in 1..5 : netlog[t][i].status = 503
        /\ doGetTokenRequest(DoRequestResult(rq[t])).err # NoErr

\* the step in which t enters the renewal as the thread that executes it
StartsRenewal(t) == pc[t] = "rn_do" /\ pc'[t] = "rq_loop"

\* the error of a renewal whose 5 attempts all failed, none discarded
Exhausted(e) ==
    /\ e.kind = "failed to perform request"
    /\ Len(e.errs) = 5
    /\ \A i \in 1..5 : ~e.errs[i].discarded

\* C18: a failed renewal leaves nothing behind.  The step that ends a failed renewal leaves
\* the cache as it was and frees the single-flight key, so that the next call on the expired
\* branch executes a renewal itself; every renewal starts at attempt 0 with no failures on
\* record and the budget of 5; a renewal answered 200 stores the credential and the calls
\* that took part return its token; and a call that finds the credential fresh returns the
\* cached token and starts no renewal.
C18_FailureNotRemembered ==
    [][\A t \in Threads :
          /\ (EndsFlight(t) /\ gt[t].fn.err # NoErr)
                => /\ tokenWrapper' = tokenWrapper
                   /\ inflight'["token-get"] = NoThread
          /\ (pc[t] = "rn_do" /\ pc'[t] # "rn_do" /\ inflight["token-get"] = NoThread)
                => StartsRenewal(t)
          /\ StartsRenewal(t)
                => /\ rq'[t].retryAttempt = 0
                   /\ rq'[t].errs = <<>>
                   /\ rq'[t].lastErr = "nil"
                   /\ getMaxAttempts(rq'[t].policy) = 5
                   /\ netlog'[t] = <<>>
                   /\ hist'[t].waits = 0
          /\ (RenewalAtReturn(t) /\ pc'[t] # "rq_ret" /\ Answered200(t))
                => /\ pc'[t] = "rn_store"
                   /\ gt'[t].fn.err = NoErr
                   /\ gt'[t].fn.token.accessToken = netlog[t][Len(netlog[t])].body.accessToken
          /\ (EndsFlight(t) /\ gt[t].fn.err = NoErr /\ t \in Callers)
                => /\ tokenWrapper = gt[t].fn.token
                   /\ gt'[t].out = [token |-> tokenWrapper.accessToken, err |-> NoErr]
          /\ (t \in Callers /\ Branches(t) /\ gt'[t].klass = "fresh")
                => /\ ReturnsCached(t)
                   /\ rq'[t] = IdleFrame
                   /\ spawned' = spawned]_vars

\* one caller holds the error of its exhausted renewal; the renewal that the other caller
\* executed after it was answered 200, and that caller holds the token now in the cache
C18_Witness ==
    \E t \in Callers : \E u \in Callers \ {t} :
        /\ pc[t] = "gt_ret" /\ gt[t].klass = "expired"
        /\ Exhausted(gt[t].out.err)
        /\ pc[u] = "gt_ret" /\ gt[u].klass = "expired"
        /\ hist[u].net
        /\ gt[u].out.err = NoErr
        /\ gt[u].out.token # ""
        /\ gt[u].out.token = tokenWrapper.accessToken

\* a credential as renewToken stores it
Stored(c) == [accessToken |-> c[1], expiredAt |-> TimeUnix(c[2])]

\* up to the latest reading of the clock, every credential the endpoint hands out is fresh
FreshSoFar == \A c \in Credentials : getExpiredIn(Stored(c), now) >= stalenessTokenPeriod

\* the step in which t makes a network call to the authentication endpoint
AuthCall(t) == pc[t] = "rq_call" /\ rq[t].target = "auth" /\ pc'[t] # "rq_call"

\* C19: one authentication for a fresh credential.  In the sequential Predict calls of one
\* caller, as long as every credential handed out has been fresh at every reading of the
\* clock: an authentication call is made only by the caller itself and only while the cache
\* is still unset; the renewal that obtains the credential makes one call answered 200, its
\* last, after as many failed calls as it retried; no background renewal is ever started;
\* and every inference request carries "Bearer" with the token the cache holds.
C19_OneAuthWhileFresh ==
    [][FreshSoFar'
       => /\ spawned' = 0
          /\ \A t \in Threads :
                /\ AuthCall(t) => (t \in Callers /\ ~IsSet)
                /\ (rq[t].target = "auth" /\ Answered200(t))
                      => /\ pc'[t] # "rq_call"
                         /\ netlog'[t] \in {netlog[t], <<>>}
                         /\ \A i \in 1..(Len(netlog[t]) - 1) : netlog[t][i].status # 200
                /\ rq'[t].target = "inference"
                      => /\ IsSet
                         /\ tokenWrapper'.accessToken # ""
                         /\ rq'[t].authorization = <<"Bearer", tokenWrapper'.accessToken>>]_vars

\* the third Predict call of the caller sends its inference request with the cached token,
\* the clock never having left the time at which the credential is fresh
C19_Witness ==
    \E t \in Callers :
        /\ FreshSoFar
        /\ calls = 3
        /\ op[t] = "Predict"
        /\ pc[t] = "rq_call" /\ rq[t].target = "inference"
        /\ gt[t].klass = "fresh"
        /\ IsSet
        /\ rq[t].authorization = <<"Bearer", tokenWrapper.accessToken>>

\* the expiry of credential x is not after the latest reading of the clock, a reading made
\* before the answer that brought x arrived: x was past its expiry when it arrived
Past(x) == x.expiredAt # ZeroTime /\ x.expiredAt - now <= 0

\* C20: a credential that arrives expired.  A renewal answered 200 with a credential whose
\* expiry is already past stores it like any other and the call returns its token with a nil
\* error; a later call that reads it takes the expired branch, returns nothing cached, starts
\* no goroutine and, unless a renewal is in flight, executes a renewal whose first step is an
\* authentication call; the inference request that follows carries the renewed token.
C20_ExpiredOnArrival ==
    [][\A t \in Threads :
          /\ (pc[t] = "rn_locked" /\ pc'[t] # "rn_locked" /\ Past(gt[t].fn.token))
                => /\ tokenWrapper' = gt[t].fn.token
                   /\ pc'[t] = "sf_done"
          /\ (EndsFlight(t) /\ t \in Callers /\ gt[t].fn.err = NoErr /\ Past(gt[t].fn.token))
                => /\ gt'[t].out = [token |-> gt[t].fn.token.accessToken, err |-> NoErr]
                   /\ pc'[t] = "gt_ret"
          /\ (t \in Callers /\ Branches(t) /\ Past(tokenWrapper))
                => /\ gt'[t].klass = "expired"
                   /\ pc'[t] = "rn_do"
                   /\ spawned' = spawned
          /\ (pc[t] = "rn_do" /\ pc'[t] # "rn_do" /\ inflight["token-get"] = NoThread)
                => /\ pc'[t] = "rq_loop"
                   /\ rq'[t].target = "auth"
                   /\ inflight'["token-get"] = t
          /\ (/\ pc[t] = "rq_loop" /\ pc'[t] # "rq_loop"
              /\ rq[t].target = "auth" /\ rq[t].retryAttempt = 0 /\ ~ctxDone[t])
                => pc'[t] = "rq_call"
          /\ (op[t] = "Predict" /\ pc[t] = "gt_ret" /\ pc'[t] = "rq_loop" /\ gt[t].klass = "expired")
                => /\ gt[t].out.err = NoErr
                   /\ rq'[t].target = "inference"
                   /\ rq'[t].retryAttempt = 0
                   /\ rq'[t].authorization = <<"Bearer", gt[t].out.token>>]_vars

\* the third Predict call of the caller: the credential it read was past its expiry, it made
\* the authentication call itself, the credential it stored is past its expiry again, and its
\* inference request is in flight with that credential's token
C20_Witness ==
    \E t \in Callers :
        /\ calls = 3
        /\ op[t] = "Predict"
        /\ gt[t].klass = "expired" /\ gt[t].past
        /\ hist[t].net
        /\ pc[t] = "rq_call" /\ rq[t].target = "inference"
        /\ Past(tokenWrapper)
        /\ gt[t].out = [token |-> tokenWrapper.accessToken, err |-> NoErr]
        /\ rq[t].authorization = <<"Bearer", tokenWrapper.accessToken>>

\* PredictWithCtx is about to return in t after its DoRequestWithRetry returned
PredictAtReturn(t) == pc[t] = "pr_ret" /\ rq[t].target = "inference"

\* C22: Predict succeeds on status 200 only.  A PredictWithCtx about to return holds either a
\* response and a nil error or no response and an error; it holds a response only when its
\* DoRequestWithRetry returned a nil error and status 200, from a last call answered 200; and
\* whenever DoRequestWithRetry returned an error or any other status it holds no response.
C22_SuccessOnly200 ==
    \A t \in Threads :
        pc[t] = "pr_ret"
        => /\ gt[t].res.ok <=> (gt[t].res.err = NoErr)
           /\ gt[t].res.ok
                => /\ PredictAtReturn(t)
                   /\ DoRequestResult(rq[t]).err = NoErr
                   /\ DoRequestResult(rq[t]).statusCode = 200
                   /\ netlog[t] # <<>>
                   /\ netlog[t][Len(netlog[t])].status = 200
           /\ (/\ PredictAtReturn(t)
               /\ \/ DoRequestResult(rq[t]).err # NoErr
                  \/ DoRequestResult(rq[t]).statusCode # 200)
                => ~gt[t].res.ok /\ gt[t].res.err # NoErr

\* the inference endpoint answered 201 with a list of predictions, which is not retried: no
\* response, and the error of a failed prediction
C22_Witness ==
    \E t \in Callers :
        /\ PredictAtReturn(t)
        /\ Len(netlog[t]) = 1
        /\ netlog[t][1].status = 201 /\ netlog[t][1].body = PredictionsBody
        /\ DoRequestResult(rq[t]).err = NoErr
        /\ DoRequestResult(rq[t]).statusCode = 201
        /\ ~gt[t].res.ok
        /\ gt[t].res.err.kind = "qwak prediction failed"

\* threads inside the fn of renewToken, from its first statement to its return
InRenewalFn == {t \in Threads : rq[t].target = "auth" \/ pc[t] \in {"rn_store", "rn_locked", "sf_done"}}

\* C23: one gate for both kinds of renewal.  At most one thread, caller or goroutine, is
\* inside the fn of renewToken; a thread of either kind that reaches renewToken while another
\* is inside waits for it and makes no authentication call; and when the fn returns, every
\* thread waiting leaves with it, the callers among them with the result of the thread that
\* executed it, of whichever kind that thread is.
C23_SharedGate ==
    [][/\ Cardinality(InRenewalFn) <= 1
       /\ \A t \in Threads :
             /\ t \in InRenewalFn => inflight["token-get"] = t
             /\ pc[t] = "rn_wait"
                   => /\ rq[t].target = "none"
                      /\ netlog[t] = <<>>
                      /\ inflight["token-get"] \notin {t, NoThread}
             /\ (pc[t] = "rn_do" /\ pc'[t] # "rn_do" /\ inflight["token-get"] # NoThread)
                   => /\ pc'[t] = "rn_wait"
                      /\ inflight' = inflight
                      /\ rq' = rq
             /\ EndsFlight(t)
                   => \A u \in Threads :
                         pc[u] = "rn_wait"
                         => /\ pc'[u] # "rn_wait"
                            /\ u \in Callers => gt'[u].out = AfterRenew(gt[t].fn)]_vars

\* a call on the expired branch made no network call and holds the token that the renewal of
\* a background goroutine, which it joined, has just stored
C23_Witness ==
    \E c \in Callers : \E g \in Goroutines :
        /\ pc[c] = "gt_ret" /\ gt[c].klass = "expired"
        /\ \A u \in Callers : ~hist[u].net
        /\ gt[c].out.err = NoErr
        /\ gt[c].out.token # ""
        /\ gt[c].out.token = tokenWrapper.accessToken
        /\ op[g] = "lazyRenewToken" /\ pc[g] = "rn_ret"

\* where a thread is while it holds the cache lock: in token(), between Lock and the deferred
\* Unlock, or in the fn of renewToken, between Lock and the deferred Unlock
LockedSections == {"gt_token_locked", "rn_locked"}

\* C24: the scope of the cache lock.  The thread that holds the lock is inside token() or
\* inside the store of a renewal, and has no DoRequestWithRetry in progress; a thread whose
\* authentication call or back-off wait is outstanding does not hold the lock.
C24_LockScope ==
    \A t \in Threads :
        /\ lock = t
              => /\ pc[t] \in LockedSections
                 /\ rq[t].target = "none"
        /\ pc[t] \in LockedSections => lock = t
        /\ pc[t] \in {"rq_loop", "rq_call", "rq_wait", "rq_ret", "rn_wait"} => lock # t

\* one caller reads the snapshot under the lock while the authentication call of another is
\* outstanding
C24_Witness ==
    \E t \in Callers : \E u \in Threads \ {t} :
        /\ lock = t /\ pc[t] = "gt_token_locked"
        /\ pc[u] = "rq_call" /\ rq[u].target = "auth"

\* x is, token and expiry together, the credential of one authentication response
Whole(x) ==
    \E c \in Credentials : x.accessToken = c[1] /\ x.expiredAt = c[2] \div 60

\* C28: the cache is replaced as a whole.  In every state the cached credential is unset or
\* is, token and expiry together, the credential of one authentication response; and each
\* GetToken branches on the expiry and returns the token of one and the same snapshot, read
\* in the step that releases the lock.
C28_WholeCredential ==
    /\ [](tokenWrapper = ZeroToken \/ Whole(tokenWrapper))
    /\ [][\A t \in Callers :
            Branches(t)
            => /\ lock = t
               /\ gt'[t].klass = Branch(getExpiredIn(tokenWrapper, now'))
               /\ gt'[t].klass # "expired"
                     => /\ Whole(tokenWrapper)
                        /\ gt'[t].out.token = tokenWrapper.accessToken]_vars

\* a call holds the token of the snapshot it read, whole, while a background renewal has
\* replaced the cache by the credential of a later response
C28_Witness ==
    \E t \in Callers :
        /\ pc[t] = "gt_ret" /\ gt[t].klass = "stale"
        /\ gt[t].out.token = "jwt-a"
        /\ tokenWrapper = Stored(<<"jwt-b", 10800>>)

\* C29 as stated: a GetToken whose own context is never done does not return the error of a
\* cancellation; when callers are coalesced onto one renewal, the cancellation of the context
\* of the caller that executes it does not make the calls of the others fail.
C29_Original ==
    [][\A t \in Callers :
          (EndsFlight(t) /\ ctxDone[t])
          => \A u \in Callers \ {t} :
                (pc[u] = "rn_wait" /\ ~ctxDone[u])
                => /\ pc'[u] = "gt_ret"
                   /\ ~CancellationError(gt'[u].out)]_vars

\* no call is in progress and no goroutine is running or waiting to start
Quiescent == spawned = 0 /\ \A t \in Threads : pc[t] = "idle"

\* C30: no deadlock between synchronous and background renewals.  Whenever a GetToken call
\* or a background renewal is in progress, a state follows where every call has returned and
\* every goroutine that was started has ended; a single-flight key is held only
\* by a thread that is executing under it and the lock only by a thread in a locked section;
\* so once nothing is in progress both keys and the lock are free.
C30_NoDeadlock ==
    /\ (~Quiescent) ~> Quiescent
    /\ [](\A t \in Threads :
              (pc[t] = "idle") => (lock # t /\ \A k \in DOMAIN inflight : inflight[k] # t))
    /\ [](Quiescent => (lock = NoThread /\ \A k \in DOMAIN inflight : inflight[k] = NoThread))

\* after a synchronous renewal and a background renewal were in progress together, nothing
\* is in progress, the keys and the lock are free, and the three calls have returned
C30_Witness ==
    /\ Quiescent
    /\ calls = 3
    /\ lock = NoThread
    /\ \A k \in DOMAIN inflight : inflight[k] = NoThread
    /\ tokenWrapper = Stored(<<"jwt-b", 10800>>)
    /\ now = 150

=============================================================================
